---- MODULE Spec2Model ----
(***************************************************************************)
(* joi-to-typescript: the compiler from a Joi description tree to          *)
(* TypeScript declarations (src/src/parse.ts).                             *)
(*                                                                         *)
(* parseSchema turns a description node into a TypeContent tree,           *)
(* typeContentToTs renders a TypeContent tree as text.  Both are pure      *)
(* functions; the state machine draws a call (the description and the      *)
(* arguments) in Init and then runs parseSchema and typeContentToTs on it. *)
(*                                                                         *)
(* Text is a sequence of one-character strings, so that                    *)
(* String.prototype.includes, the key pattern and the string comparison    *)
(* of the sort are computed character by character.                        *)
(* An optional value (x?: T in the source) is a sequence of length at most *)
(* one: None is undefined, Some(x) is x.                                   *)
(***************************************************************************)
EXTENDS Naturals, Sequences, FiniteSets, TLC

None == <<>>
Some(x) == <<x>>

-----------------------------------------------------------------------------
(* Text *)

NL == "\n"
SQ == "'"

T_string == <<"s","t","r","i","n","g">>
T_any == <<"a","n","y">>
T_boolean == <<"b","o","o","l","e","a","n">>
T_date == <<"d","a","t","e">>
T_Date == <<"D","a","t","e">>
T_number == <<"n","u","m","b","e","r">>
T_binary == <<"b","i","n","a","r","y">>
T_symbol == <<"s","y","m","b","o","l">>
T_link == <<"l","i","n","k">>
T_array == <<"a","r","r","a","y">>
T_object == <<"o","b","j","e","c","t">>
T_alternatives == <<"a","l","t","e","r","n","a","t","i","v","e","s">>
T_null == <<"n","u","l","l">>
T_undefined == <<"u","n","d","e","f","i","n","e","d">>
T_exportType == <<"e","x","p","o","r","t"," ","t","y","p","e"," ">>
T_exportInterface == <<"e","x","p","o","r","t"," ","i","n","t","e","r","f","a","c","e"," ">>
T_eq == <<" ","="," ">>
T_bar == <<" ","|"," ">>
T_unknownName == <<"[","x",":"," ","s","t","r","i","n","g","]">>
T_unknownDescription == <<"U","n","k","n","o","w","n"," ","P","r","o","p","e","r","t","y">>
T_docOpen == <<"/","*","*">>
T_docLine == <<" ","*"," ">>
T_docClose == <<" ","*","/">>

\* `${t}` of a Joi type name
TypeText(t) ==
  CASE t = "string" -> T_string
    [] t = "any" -> T_any
    [] t = "boolean" -> T_boolean
    [] t = "date" -> T_date
    [] t = "number" -> T_number
    [] t = "binary" -> T_binary
    [] t = "symbol" -> T_symbol
    [] t = "link" -> T_link
    [] t = "array" -> T_array
    [] t = "object" -> T_object
    [] t = "alternatives" -> T_alternatives

\* String.prototype.includes for a one-character needle
Includes(text, ch) == \E i \in 1..Len(text) : text[i] = ch

\* whether pat occurs in text as a substring
Contains(text, pat) ==
  \E i \in 0..(Len(text) - Len(pat)) :
    Len(text) >= Len(pat) /\ \A j \in 1..Len(pat) : text[i + j] = pat[j]

\* Array.prototype.join
RECURSIVE Join(_, _)
Join(texts, sep) ==
  IF Len(texts) = 0 THEN <<>>
  ELSE IF Len(texts) = 1 THEN texts[1]
  ELSE texts[1] \o sep \o Join(Tail(texts), sep)

\* the UTF-16 code unit of the characters that occur in names
CharCode(c) ==
  CASE c = " " -> 32 [] c = "$" -> 36 [] c = "'" -> 39 [] c = "-" -> 45
    [] c = "1" -> 49 [] c = ":" -> 58
    [] c = "B" -> 66 [] c = "P" -> 80 [] c = "Z" -> 90
    [] c = "[" -> 91 [] c = "]" -> 93 [] c = "_" -> 95
    [] c = "a" -> 97 [] c = "b" -> 98 [] c = "c" -> 99 [] c = "e" -> 101
    [] c = "g" -> 103 [] c = "i" -> 105 [] c = "l" -> 108 [] c = "n" -> 110
    [] c = "o" -> 111 [] c = "p" -> 112 [] c = "r" -> 114 [] c = "s" -> 115
    [] c = "t" -> 116 [] c = "x" -> 120 [] c = "z" -> 122

\* a < b on JavaScript strings: by code unit, a proper prefix first
RECURSIVE StrLess(_, _)
StrLess(a, b) ==
  IF Len(b) = 0 THEN FALSE
  ELSE IF Len(a) = 0 THEN TRUE
  ELSE IF CharCode(a[1]) < CharCode(b[1]) THEN TRUE
  ELSE IF CharCode(a[1]) > CharCode(b[1]) THEN FALSE
  ELSE StrLess(Tail(a), Tail(b))

IsLetter(c) == (CharCode(c) >= 65 /\ CharCode(c) <= 90) \/ (CharCode(c) >= 97 /\ CharCode(c) <= 122)
IsDigit(c) == CharCode(c) >= 48 /\ CharCode(c) <= 57

\* /^[$A-Z_][0-9A-Z_$]*$/i.test(key)
IsIdentifier(key) ==
  /\ Len(key) >= 1
  /\ (key[1] = "$" \/ key[1] = "_" \/ IsLetter(key[1]))
  /\ \A i \in 2..Len(key) : key[i] = "$" \/ key[i] = "_" \/ IsLetter(key[i]) \/ IsDigit(key[i])

-----------------------------------------------------------------------------
(* Values of an allow list: kind is "null", "string" or "other" (a number  *)
(* or a boolean); text is `${value}`.                                      *)

Value(kind, text) == [kind |-> kind, text |-> text]
VNull == Value("null", T_null)
VEmpty == Value("string", <<>>)

-----------------------------------------------------------------------------
(* Description nodes (Describe).  keys is Object.entries(details.keys) in  *)
(* order; matches holds the matches[i].schema.                             *)

Describe(type, label, description, presence, unknown, allow, items, keys, matches) ==
  [type |-> type, label |-> label, description |-> description, presence |-> presence,
   unknown |-> unknown, allow |-> allow, items |-> items, keys |-> keys, matches |-> matches]

\* details.items[0] of an empty items array
UndefinedDescribe == Describe("undefined", None, None, "unset", FALSE, None, None, <<>>, <<>>)

\* { type: 'any' } as Describe
AnyDescribe == Describe("any", None, None, "unset", FALSE, None, None, <<>>, <<>>)

supportedJoiTypes == {"array", "object", "alternatives", "any", "boolean", "date", "number", "string"}

-----------------------------------------------------------------------------
(* TypeContent *)

makeTypeContentChild(content, customTypes, required, name, description) ==
  [isRoot |-> FALSE, content |-> content, customTypes |-> customTypes,
   joinOperation |-> "none", children |-> <<>>,
   required |-> required, name |-> name, description |-> description]

makeTypeContentRoot(joinOperation, children, name, description) ==
  [isRoot |-> TRUE, content |-> <<>>, customTypes |-> None,
   joinOperation |-> joinOperation, children |-> children,
   required |-> None, name |-> name, description |-> description]

\* The outcome of a call: a value, undefined, or an exception
Ok(v) == [kind |-> "ok", value |-> v]
Undefined == [kind |-> "undefined", value |-> makeTypeContentChild(<<>>, None, None, None, None)]
Throw == [kind |-> "throw", value |-> makeTypeContentChild(<<>>, None, None, None, None)]

\* filterMap(list, mapper), given the mapper's results in list order: the
\* results that are not undefined
FilterMap(mapped) ==
  LET kept == SelectSeq(mapped, LAMBDA r : r.kind = "ok")
  IN [i \in 1..Len(kept) |-> kept[i].value]

-----------------------------------------------------------------------------
(* The parser: parseSchema and the shape parsers *)

\* the presence 'optional' forgotten: every unset or optional node takes the default
getCommonDetailsWithoutOptional(details, settings) ==
  [label |-> details.label,
   description |-> details.description,
   required |-> IF details.presence = "required" THEN TRUE
                ELSE settings.defaultToRequired]

getCommonDetails(details, settings) ==
  [label |-> details.label,
   description |-> details.description,
   required |-> IF details.presence = "optional" THEN FALSE
                ELSE IF details.presence = "required" THEN TRUE
                ELSE settings.defaultToRequired]

\* a label followed only when no label is ignored
UsesLabelWhenNoneIgnored(label, useLabels, ignoreLabels) ==
  /\ label # None
  /\ Len(label[1]) > 0
  /\ useLabels
  /\ Len(ignoreLabels) = 0

\* label && useLabels && !ignoreLabels.includes(label)
UsesLabel(label, useLabels, ignoreLabels) ==
  /\ label # None
  /\ Len(label[1]) > 0
  /\ useLabels
  /\ ~(\E i \in 1..Len(ignoreLabels) : ignoreLabels[i] = label[1])

\* makeTypeContentChild({ content: label, customTypes: [label], description, required })
LabelReference(label, description, required) ==
  makeTypeContentChild(label[1], Some(<<label[1]>>), Some(required), None, description)

\* binary taken for a supported type
IsSupportedOrBinary(type) == type \in supportedJoiTypes \cup {"binary"}

IsSupported(type) == type \in supportedJoiTypes

\* typeof value === 'string' ? `'${value}'` : `${value}`
BasicLiteral(value) ==
  makeTypeContentChild(IF value.kind = "string" THEN <<SQ>> \o value.text \o <<SQ>> ELSE value.text,
                       None, None, None, None)

\* null looked for in the whole list
BasicAddsBaseTypeAnyNull(values) == \E i \in 1..Len(values) : values[i].kind = "null"

\* values[0] === null
BasicAddsBaseType(values) == values[1].kind = "null"

parseBasicSchema(details, settings) ==
  LET name == getCommonDetails(details, settings).label
      description == getCommonDetails(details, settings).description
      content == IF details.type = "date" THEN T_Date ELSE TypeText(details.type)
      values == details.allow
  IN IF values # None /\ Len(values[1]) # 0
     THEN LET allowedValues == [i \in 1..Len(values[1]) |-> BasicLiteral(values[1][i])]
              children == IF BasicAddsBaseType(values[1])
                          THEN <<makeTypeContentChild(content, None, None, None, None)>> \o allowedValues
                          ELSE allowedValues
          IN Ok(makeTypeContentRoot("union", children, name, description))
     ELSE Ok(makeTypeContentChild(content, None, None, name, description))

\* stringAllowValues.includes(value), stringAllowValues = [null, '']
IsStringAllowValue(value) == value.kind = "null" \/ (value.kind = "string" /\ value.text = <<>>)

\* stringAllowValues.includes(value) && value !== '' ? `${value}` : `'${value}'`
StringLiteral(value) ==
  makeTypeContentChild(IF IsStringAllowValue(value) /\ ~(value.kind = "string" /\ value.text = <<>>)
                       THEN value.text
                       ELSE <<SQ>> \o value.text \o <<SQ>>,
                       None, None, None, None)

\* values.length === 1 && values[0] === ''
IsOnlyEmptyString(values) == Len(values) = 1 /\ values[1].kind = "string" /\ values[1].text = <<>>

parseStringSchema(details, settings) ==
  LET name == getCommonDetails(details, settings).label
      description == getCommonDetails(details, settings).description
      values == details.allow
  IN IF values # None /\ Len(values[1]) # 0 /\ ~IsOnlyEmptyString(values[1])
     THEN LET allowedValues == [i \in 1..Len(values[1]) |-> StringLiteral(values[1][i])]
              children == IF \A i \in 1..Len(values[1]) : IsStringAllowValue(values[1][i])
                          THEN <<makeTypeContentChild(T_string, None, None, None, None)>> \o allowedValues
                          ELSE allowedValues
          IN Ok(makeTypeContentRoot("union", children, name, description))
     ELSE Ok(makeTypeContentChild(T_string, None, None, name, description))

\* details.items ? details.items[0] : { type: 'any' }
ArrayItem(details) ==
  IF details.items = None THEN AnyDescribe
  ELSE IF Len(details.items[1]) = 0 THEN UndefinedDescribe
  ELSE details.items[1][1]

\* the name of a property: the key, or the key in single quotes
PropertyName(key) == IF IsIdentifier(key) THEN key ELSE <<SQ>> \o key \o <<SQ>>

\* the catch-all property of flags.unknown
unknownProperty ==
  [isRoot |-> FALSE, content |-> T_any, customTypes |-> None,
   joinOperation |-> "none", children |-> <<>>,
   required |-> Some(TRUE), name |-> Some(T_unknownName), description |-> Some(T_unknownDescription)]

\* the comparator with its results exchanged
CompareNamesExchanged(a, b) ==
  IF StrLess(b.name[1], a.name[1]) THEN 0 - 1
  ELSE IF StrLess(a.name[1], b.name[1]) THEN 1
  ELSE 0

\* the comparator of children.sort: 1, -1 or 0
CompareNames(a, b) ==
  IF StrLess(b.name[1], a.name[1]) THEN 1
  ELSE IF StrLess(a.name[1], b.name[1]) THEN 0 - 1
  ELSE 0

\* children.sort(comparator): a stable sort, by insertion
RECURSIVE InsertSorted(_, _)
InsertSorted(sorted, c) ==
  IF Len(sorted) = 0 THEN <<c>>
  ELSE IF CompareNames(sorted[Len(sorted)], c) > 0
       THEN InsertSorted(SubSeq(sorted, 1, Len(sorted) - 1), c) \o <<sorted[Len(sorted)]>>
       ELSE sorted \o <<c>>

RECURSIVE SortChildren(_)
SortChildren(children) ==
  IF Len(children) = 0 THEN <<>>
  ELSE InsertSorted(SortChildren(SubSeq(children, 1, Len(children) - 1)), children[Len(children)])

RECURSIVE parseSchema(_, _, _, _)
RECURSIVE parseArray(_, _)
RECURSIVE parseAlternatives(_, _)
RECURSIVE parseObjects(_, _)

parseHelper(details, settings) ==
  CASE details.type = "array" -> parseArray(details, settings)
    [] details.type = "string" -> parseStringSchema(details, settings)
    [] details.type = "alternatives" -> parseAlternatives(details, settings)
    [] details.type = "object" -> parseObjects(details, settings)
    [] OTHER -> parseBasicSchema(details, settings)

parseSchema(details, settings, useLabels, ignoreLabels) ==
  IF details = UndefinedDescribe THEN Throw  \* TypeError: details.flags of undefined
  ELSE
  LET common == getCommonDetails(details, settings)
  IN IF UsesLabel(common.label, useLabels, ignoreLabels)
     THEN Ok(LabelReference(common.label, common.description, common.required))
     ELSE IF ~IsSupported(details.type) THEN Undefined
     ELSE LET parsedSchema == parseHelper(details, settings)
          IN IF parsedSchema.kind # "ok" THEN parsedSchema
             ELSE Ok([parsedSchema.value EXCEPT !.name = common.label,
                                                 !.description = common.description,
                                                 !.required = Some(common.required)])

parseArray(details, settings) ==
  LET item == ArrayItem(details)
      name == getCommonDetails(details, settings).label
      description == getCommonDetails(details, settings).description
      child == parseSchema(item, settings, TRUE, <<>>)
  IN IF child.kind = "ok"
     THEN Ok(makeTypeContentRoot("list", <<child.value>>, name, description))
     ELSE child

parseAlternatives(details, settings) ==
  LET label == getCommonDetails(details, settings).label
      description == getCommonDetails(details, settings).description
      ignoreLabels == IF label # None /\ Len(label[1]) > 0 THEN <<label[1]>> ELSE <<>>
      mapped == [i \in 1..Len(details.matches) |->
                   parseSchema(details.matches[i], settings, TRUE, ignoreLabels)]
      children == FilterMap(mapped)
  IN IF \E i \in 1..Len(mapped) : mapped[i].kind = "throw" THEN Throw
     ELSE IF Len(children) = 0 THEN Undefined
     ELSE Ok(makeTypeContentRoot("union", children, label, description))

parseObjects(details, settings) ==
  LET mapped == [i \in 1..Len(details.keys) |->
                   LET parsedSchema == parseSchema(details.keys[i].value, settings, TRUE, <<>>)
                   IN IF parsedSchema.kind # "ok" THEN parsedSchema
                      ELSE Ok([parsedSchema.value EXCEPT !.name = Some(PropertyName(details.keys[i].key))])]
      parsed == FilterMap(mapped)
      withUnknown == IF details.unknown THEN parsed \o <<unknownProperty>> ELSE parsed
      children == IF settings.sortPropertiesByName THEN SortChildren(withUnknown) ELSE withUnknown
      name == getCommonDetails(details, settings).label
      description == getCommonDetails(details, settings).description
  IN IF \E i \in 1..Len(mapped) : mapped[i].kind = "throw" THEN Throw
     ELSE Ok(makeTypeContentRoot("object", children, name, description))

-----------------------------------------------------------------------------
(* The renderer: typeContentToTs *)

\* '  '.repeat(indentLevel)
RECURSIVE getIndentStr(_)
getIndentStr(indentLevel) ==
  IF indentLevel = 0 THEN <<>> ELSE <<" ", " ">> \o getIndentStr(indentLevel - 1)

\* `${name}` of an optional string
NameText(name) == IF name = None THEN T_undefined ELSE name[1]

\* a string is truthy when it is defined and not empty
Truthy(opt) == opt # None /\ Len(opt[1]) > 0

getDescriptionStr(commentEverything, name, description, indentLevel) ==
  IF ~commentEverything /\ ~Truthy(description) THEN <<>>
  ELSE LET docStr == IF Truthy(description) THEN description[1] ELSE NameText(name)
           lines == <<T_docOpen, T_docLine \o docStr, T_docClose>>
       IN Join([i \in 1..3 |-> getIndentStr(indentLevel) \o lines[i]], <<NL>>) \o <<NL>>

\* the outcome of typeContentToTsHelper: the text and the description, or an exception
Rendered(tsContent, description) == [kind |-> "ok", tsContent |-> tsContent, description |-> description]
RenderThrow == [kind |-> "throw", tsContent |-> <<>>, description |-> None]

\* doExport && !parsedSchema.name
NeedsName(parsedSchema, doExport) == doExport /\ ~Truthy(parsedSchema.name)

\* the parentheses of a union forgotten
ArrayStrWithoutParentheses(content) == content \o <<"[", "]">>

\* the array expression of a list's child content
ArrayStr(content) ==
  IF Includes(content, "|") THEN <<"(">> \o content \o <<")">> \o <<"[", "]">>
  ELSE content \o <<"[", "]">>

\* child.required ? '' : '?'
OptionalStr(child) == IF child.required = Some(TRUE) THEN <<>> ELSE <<"?">>

\* one property of an object body: its comment and its line
PropertyStr(commentEverything, child, childInfo, indentLevel) ==
  getDescriptionStr(commentEverything, child.name, childInfo.description, indentLevel + 1)
    \o <<" ", " ">> \o getIndentStr(indentLevel) \o NameText(child.name) \o OptionalStr(child)
    \o <<":", " ">> \o childInfo.tsContent \o <<";">>

RECURSIVE typeContentToTsHelper(_, _, _, _)
typeContentToTsHelper(commentEverything, parsedSchema, doExport, indentLevel) ==
  IF ~parsedSchema.isRoot THEN Rendered(parsedSchema.content, parsedSchema.description)
  ELSE IF NeedsName(parsedSchema, doExport) THEN RenderThrow
  ELSE
  LET children == parsedSchema.children
  IN CASE parsedSchema.joinOperation = "list" ->
            LET childrenContent == [i \in 1..Len(children) |->
                                      typeContentToTsHelper(commentEverything, children[i], FALSE, 0)]
            IN IF \E i \in 1..Len(children) : childrenContent[i].kind = "throw" THEN RenderThrow
               ELSE IF Len(childrenContent) > 1 THEN RenderThrow
               ELSE IF Len(childrenContent) = 0 THEN RenderThrow  \* TypeError: childrenContent[0] is undefined
               ELSE LET arrayStr == ArrayStr(childrenContent[1].tsContent)
                    IN IF doExport
                       THEN Rendered(T_exportType \o NameText(parsedSchema.name) \o T_eq \o arrayStr \o <<";">>,
                                     parsedSchema.description)
                       ELSE Rendered(arrayStr, parsedSchema.description)
       [] parsedSchema.joinOperation = "union" ->
            LET childrenContent == [i \in 1..Len(children) |->
                                      typeContentToTsHelper(commentEverything, children[i], FALSE, 0)]
                unionStr == Join([i \in 1..Len(children) |-> childrenContent[i].tsContent], T_bar)
            IN IF \E i \in 1..Len(children) : childrenContent[i].kind = "throw" THEN RenderThrow
               ELSE IF doExport
                    THEN Rendered(T_exportType \o NameText(parsedSchema.name) \o T_eq \o unionStr \o <<";">>,
                                  parsedSchema.description)
                    ELSE Rendered(unionStr, parsedSchema.description)
       [] parsedSchema.joinOperation = "object" ->
            IF Len(children) = 0 /\ ~doExport THEN Rendered(T_object, parsedSchema.description)
            ELSE
            LET childInfo == [i \in 1..Len(children) |->
                                typeContentToTsHelper(commentEverything, children[i], FALSE, indentLevel + 1)]
                childrenContent == [i \in 1..Len(children) |->
                                      PropertyStr(commentEverything, children[i], childInfo[i], indentLevel)]
                objectStr == IF Len(children) # 0
                             THEN <<"{", NL>> \o Join(childrenContent, <<NL>>) \o <<NL>>
                                    \o getIndentStr(indentLevel) \o <<"}">>
                             ELSE <<"{", "}">>
            IN IF \E i \in 1..Len(children) : childInfo[i].kind = "throw" THEN RenderThrow
               ELSE IF doExport
                    THEN Rendered(T_exportInterface \o NameText(parsedSchema.name) \o <<" ">> \o objectStr,
                                  parsedSchema.description)
                    ELSE Rendered(objectStr, parsedSchema.description)
       [] OTHER -> RenderThrow

\* the outcome of typeContentToTs: the text, or an exception
typeContentToTs(commentEverything, parsedSchema, doExport) ==
  LET helper == typeContentToTsHelper(commentEverything, parsedSchema, doExport, 0)
  IN IF helper.kind = "throw" THEN [kind |-> "throw", text |-> <<>>]
     ELSE [kind |-> "ok",
           text |-> getDescriptionStr(commentEverything, parsedSchema.name, helper.description, 0)
                      \o helper.tsContent]

-----------------------------------------------------------------------------
(* The calls: the descriptions and arguments the model draws *)

MaxAllow == 2
MaxKeys == 3
MaxMatches == 2
MaxItems == 1

T_People == <<"P","e","o","p","l","e">>
T_Person == <<"P","e","r","s","o","n">>
T_doc == <<"d","o","c">>

Labels == {None, Some(T_People), Some(T_Person)}
Descriptions == {None, Some(T_doc)}
Presences == {"unset", "optional", "required"}
BasicTypes == {"any", "boolean", "date", "number"}
UnsupportedTypes == {"binary", "symbol", "link"}
StringValues == {VNull, VEmpty, Value("string", <<"a">>), Value("string", <<"|">>)}
BasicValues == {VNull, Value("string", <<"a">>), Value("other", <<"1">>)}
Keys == {<<"a">>, <<"Z">>, <<"a", "-", "b">>}

SeqsUpTo(S, n) == UNION {[1..k -> S] : k \in 0..n}
SeqsFrom(S, m, n) == UNION {[1..k -> S] : k \in m..n}
\* an allow list holds each value once
AllowLists(S) ==
  {None} \cup {Some(l) : l \in {v \in SeqsUpTo(S, MaxAllow) : \A i, j \in 1..Len(v) : i # j => v[i] # v[j]}}

\* a description without flags
Shape(type, allow, items, keys, matches) ==
  Describe(type, None, None, "unset", FALSE, allow, items, keys, matches)
Leaf(type, allow) == Shape(type, allow, None, <<>>, <<>>)
ArrayOf(items) == Shape("array", None, items, <<>>, <<>>)
AlternativesOf(matches) == Shape("alternatives", None, None, <<>>, matches)
ObjectOf(keys) == Shape("object", None, None, keys, <<>>)
Entry(key, value) == [key |-> key, value |-> value]

Labelled(n, label) == [n EXCEPT !.label = label]
Described(n, description) == [n EXCEPT !.description = description]
Present(n, presence) == [n EXCEPT !.presence = presence]
WithUnknown(n, unknown) == [n EXCEPT !.unknown = unknown]

LeafShapes ==
  {Leaf("string", a) : a \in AllowLists(StringValues)}
    \cup {Leaf(t, a) : t \in BasicTypes, a \in AllowLists(BasicValues)}
    \cup {Leaf(t, None) : t \in UnsupportedTypes}

\* the children of the composite descriptions
PlainKids ==
  {Leaf("string", None), Leaf("number", None), Leaf("binary", None),
   Labelled(Leaf("string", None), Some(T_Person)),
   Leaf("number", Some(<<Value("other", <<"1">>), VNull>>))}

StringOrNumber == AlternativesOf(<<Leaf("string", None), Leaf("number", None)>>)

NestedKids ==
  {ArrayOf(Some(<<k>>)) : k \in PlainKids \cup {StringOrNumber, ArrayOf(Some(<<StringOrNumber>>))}}
    \cup {ArrayOf(None), ArrayOf(Some(<<>>)), StringOrNumber,
          AlternativesOf(<<Leaf("binary", None)>>),
          Labelled(StringOrNumber, Some(T_Person)),
          ObjectOf(<<>>),
          ObjectOf(<<Entry(<<"b">>, StringOrNumber)>>),
          ArrayOf(Some(<<ObjectOf(<<Entry(<<"b">>, Leaf("string", None))>>)>>)),
          AlternativesOf(<<ObjectOf(<<Entry(<<"b">>, Leaf("string", None))>>), Leaf("number", None)>>),
          Labelled(ObjectOf(<<Entry(<<"b">>, Leaf("string", None))>>), Some(T_Person))}

Kids == PlainKids \cup NestedKids

ArrayShapes ==
  {ArrayOf(None), ArrayOf(Some(<<>>))}
    \cup {ArrayOf(Some(<<k>>)) : k \in Kids}
    \cup {ArrayOf(Some(items)) : items \in SeqsFrom(PlainKids, 2, MaxItems)}

AlternativesShapes ==
  {AlternativesOf(<<k>>) : k \in Kids}
    \cup {AlternativesOf(matches) : matches \in SeqsFrom(PlainKids, 0, MaxMatches)}
    \cup {AlternativesOf(<<Labelled(k, l)>>) : k \in {Leaf("string", None), Leaf("binary", None)}, l \in Labels}

\* the entries of an object: distinct keys, in any order
EntriesOf(S) ==
  {e \in SeqsUpTo([key : Keys, value : S], MaxKeys) :
     \A i, j \in 1..Len(e) : i # j => e[i].key # e[j].key}

SiblingKids == {Leaf("string", None), Leaf("number", None), Leaf("binary", None), ArrayOf(Some(<<>>))}

ObjectShapes ==
  {WithUnknown(ObjectOf(e), u) : e \in EntriesOf(SiblingKids), u \in BOOLEAN}
    \cup {ObjectOf(<<Entry(<<"a">>, Described(Present(k, p), d))>>) :
            k \in Kids, p \in Presences, d \in Descriptions}

Shapes == LeafShapes \cup ArrayShapes \cup AlternativesShapes \cup ObjectShapes

Details == {Described(Labelled(s, l), d) : s \in Shapes, l \in Labels, d \in Descriptions}

Settings == [defaultToRequired : BOOLEAN, sortPropertiesByName : BOOLEAN]

IgnoreLabels == {<<>>, <<T_People>>}

-----------------------------------------------------------------------------
(* The state machine *)

VARIABLES details, settings, useLabels, ignoreLabels, commentEverything, doExport,
          parsedSchema, tsContent, pc

vars == <<details, settings, useLabels, ignoreLabels, commentEverything, doExport,
          parsedSchema, tsContent, pc>>

NoText == [kind |-> "none", text |-> <<>>]

Init ==
  /\ details \in Details
  /\ settings \in Settings
  /\ useLabels = FALSE
  /\ ignoreLabels = <<>>
  /\ commentEverything = FALSE
  /\ doExport = FALSE
  /\ parsedSchema = Undefined
  /\ tsContent = NoText
  /\ pc = "start"

\* parsedSchema = parseSchema(details, settings, useLabels, ignoreLabels)
ParseSchema ==
  /\ pc = "start"
  /\ \E u \in BOOLEAN, ignore \in IgnoreLabels :
       /\ (~u => ignore = <<>>)
       /\ useLabels' = u
       /\ ignoreLabels' = ignore
       /\ parsedSchema' = parseSchema(details, settings, u, ignore)
  /\ pc' = "parsed"
  /\ UNCHANGED <<details, settings, commentEverything, doExport, tsContent>>

\* tsContent = typeContentToTs(commentEverything, parsedSchema, doExport)
TypeContentToTs ==
  /\ pc = "parsed"
  /\ parsedSchema.kind = "ok"
  /\ \E c \in BOOLEAN, e \in BOOLEAN :
       /\ commentEverything' = c
       /\ doExport' = e
       /\ tsContent' = typeContentToTs(c, parsedSchema.value, e)
  /\ pc' = "rendered"
  /\ UNCHANGED <<details, settings, useLabels, ignoreLabels, parsedSchema>>

Next == ParseSchema \/ TypeContentToTs

Spec == Init /\ [][Next]_vars

-----------------------------------------------------------------------------
(* Properties *)

StartsWith(text, prefix) ==
  Len(text) >= Len(prefix) /\ \A i \in 1..Len(prefix) : text[i] = prefix[i]

EndsWith(text, suffix) ==
  Len(text) >= Len(suffix)
    /\ \A i \in 1..Len(suffix) : text[Len(text) - Len(suffix) + i] = suffix[i]

\* the label of details is followed: it is set, labels are used, it is not ignored
LabelFollowed ==
  /\ details.label # None
  /\ useLabels
  /\ \A i \in 1..Len(ignoreLabels) : ignoreLabels[i] # details.label[1]

\* an array labelled People whose item is an object labelled Person
IsPeopleOfPerson(d) ==
  /\ d.type = "array"
  /\ d.label = Some(T_People)
  /\ d.items # None
  /\ Len(d.items[1]) = 1
  /\ d.items[1][1].type = "object"
  /\ d.items[1][1].label = Some(T_Person)

T_PeopleDeclaration ==
  T_exportType \o T_People \o T_eq \o T_Person \o <<"[", "]", ";">>

\* C1: a labelled node parsed with useLabels and a label that is not ignored
\* gives the leaf that references the label (content = label, customTypes =
\* [label]), whatever its type and structure; an array labelled People of an
\* object labelled Person, parsed as a top-level schema, renders with export
\* as `export type People = Person[];`
C1_LabelShortCircuit ==
  /\ (pc # "start" /\ LabelFollowed) =>
       /\ parsedSchema.kind = "ok"
       /\ ~parsedSchema.value.isRoot
       /\ parsedSchema.value.content = details.label[1]
       /\ parsedSchema.value.customTypes = Some(<<details.label[1]>>)
       /\ parsedSchema.value.children = <<>>
  /\ (pc = "rendered" /\ IsPeopleOfPerson(details) /\ ~useLabels /\ doExport) =>
       /\ tsContent.kind = "ok"
       /\ EndsWith(tsContent.text, T_PeopleDeclaration)
       /\ (~commentEverything /\ details.description = None => tsContent.text = T_PeopleDeclaration)

\* C1's case: a labelled object with a property, its label followed while
\* another label is ignored
C1_Witness ==
  /\ pc = "parsed"
  /\ LabelFollowed
  /\ ignoreLabels # <<>>
  /\ details.type = "object"
  /\ Len(details.keys) > 0
  /\ parsedSchema.value.content = T_Person

\* a doc comment: `/** \n * <text>\n */\n`
IsDocComment(text) ==
  /\ StartsWith(text, T_docOpen \o <<NL>> \o T_docLine)
  /\ EndsWith(text, <<NL>> \o T_docClose \o <<NL>>)

\* `export interface <label> {...}` or `export type <label> = <expr>;`
IsDeclaration(text, label) ==
  \/ StartsWith(text, T_exportInterface \o label \o <<" ", "{">>) /\ EndsWith(text, <<"}">>)
  \/ StartsWith(text, T_exportType \o label \o T_eq) /\ EndsWith(text, <<";">>)

\* an optional doc comment followed by a declaration of label
IsExportedDeclaration(text, label) ==
  \E i \in 0..Len(text) :
    /\ i = 0 \/ IsDocComment(SubSeq(text, 1, i))
    /\ IsDeclaration(SubSeq(text, i + 1, Len(text)), label)

\* the call is the top-level one of a labelled schema of a supported type,
\* rendered with export
IsTopLevelExport ==
  /\ pc = "rendered"
  /\ details.label # None
  /\ IsSupported(details.type)
  /\ ~useLabels
  /\ doExport

\* C2: a labelled node of a supported type, parsed as a top-level schema
\* (useLabels = false) and rendered with doExport = true, gives an optional doc
\* comment followed by `export interface <label> {...}` or
\* `export type <label> = <expr>;`
C2_ExportedDeclaration ==
  IsTopLevelExport =>
    tsContent.kind = "ok" /\ IsExportedDeclaration(tsContent.text, details.label[1])

\* the start of a property line of a top-level object body: the indent, the
\* name, the optional marker if any, and the colon
PropertyLineStart(name, optional) ==
  <<NL, " ", " ">> \o name \o (IF optional THEN <<"?">> ELSE <<>>) \o <<":", " ">>

\* the required flag of a property, from flags.presence and defaultToRequired
RequiredOf(value) ==
  CASE value.presence = "optional" -> FALSE
    [] value.presence = "required" -> TRUE
    [] value.presence = "unset" -> settings.defaultToRequired

\* an object schema, itself parsed and rendered
IsRenderedObject ==
  /\ pc = "rendered"
  /\ details.type = "object"
  /\ ~LabelFollowed
  /\ tsContent.kind = "ok"

\* C3: a property line carries `?` right after the property name exactly
\* when the property is not required: flags.presence 'optional' gives false,
\* 'required' true, unset settings.defaultToRequired; for every shape of value
C3_OptionalMarker ==
  IsRenderedObject =>
    \A i \in 1..Len(details.keys) :
      LET value == details.keys[i].value
          name == PropertyName(details.keys[i].key)
      IN parseSchema(value, settings, TRUE, <<>>).kind = "ok" =>
           /\ Contains(tsContent.text, PropertyLineStart(name, TRUE)) <=> ~RequiredOf(value)
           /\ Contains(tsContent.text, PropertyLineStart(name, FALSE)) <=> RequiredOf(value)

\* C3's case: an optional property whose value is an alternatives, under
\* defaultToRequired, rendered with the marker
C3_Witness ==
  /\ IsRenderedObject
  /\ settings.defaultToRequired
  /\ Len(details.keys) = 1
  /\ details.keys[1].value.type = "alternatives"
  /\ details.keys[1].value.presence = "optional"
  /\ Contains(tsContent.text, PropertyLineStart(<<"a">>, TRUE))

\* a string schema with the empty string among its allowed values, parsed
\* and rendered
IsRenderedStringAllowingEmpty ==
  /\ pc = "rendered"
  /\ details.type = "string"
  /\ ~LabelFollowed
  /\ details.allow # None
  /\ \E i \in 1..Len(details.allow[1]) : details.allow[1][i] = VEmpty

\* C4: an allowed empty string is ignored on a string schema: the rendered
\* type has no `''` member, and it is exactly `string` when the empty string
\* is the only allowed value
C4_EmptyStringIgnored ==
  IsRenderedStringAllowingEmpty =>
    /\ tsContent.kind = "ok"
    /\ ~Contains(tsContent.text, <<SQ, SQ>>)
    /\ details.allow[1] = <<VEmpty>> =>
         /\ EndsWith(tsContent.text, T_string)
         /\ ~Contains(tsContent.text, T_bar)
         /\ (~commentEverything /\ details.description = None => tsContent.text = T_string)

\* a basic schema with a non-empty allow list, itself parsed
IsParsedBasicWithAllow ==
  /\ pc # "start"
  /\ details.type \in BasicTypes
  /\ ~LabelFollowed
  /\ details.allow # None
  /\ Len(details.allow[1]) > 0

\* the content of the literal leaf of an allowed value
LiteralText(value) ==
  IF value.kind = "string" THEN <<SQ>> \o value.text \o <<SQ>> ELSE value.text

\* parsedSchema is a union of leaves with the given contents, in order
IsUnionOfLeaves(contents) ==
  /\ parsedSchema.kind = "ok"
  /\ parsedSchema.value.isRoot
  /\ parsedSchema.value.joinOperation = "union"
  /\ Len(parsedSchema.value.children) = Len(contents)
  /\ \A i \in 1..Len(contents) :
       /\ ~parsedSchema.value.children[i].isRoot
       /\ parsedSchema.value.children[i].content = contents[i]

\* the union a basic schema gives: the base type if withBase, then the literals
BasicUnionContents(withBase) ==
  (IF withBase THEN <<IF details.type = "date" THEN T_Date ELSE TypeText(details.type)>> ELSE <<>>)
    \o [i \in 1..Len(details.allow[1]) |-> LiteralText(details.allow[1][i])]

\* C5, as stated: the union of a basic schema with an allow list holds one
\* literal leaf per value in order, preceded by the base type exactly when
\* null is among the values, at whatever position
C5_BaseTypeWhenNullAnywhere ==
  IsParsedBasicWithAllow =>
    IsUnionOfLeaves(BasicUnionContents(\E i \in 1..Len(details.allow[1]) : details.allow[1][i].kind = "null"))

\* C5, amended: the union of a basic schema with an allow list holds one
\* literal leaf per value in order, preceded by the base type exactly when
\* null is the first allowed value
C5_BaseTypeWhenNullFirst ==
  IsParsedBasicWithAllow =>
    IsUnionOfLeaves(BasicUnionContents(details.allow[1][1].kind = "null"))

\* C5's case: null allowed after another value, and a union without the base type
C5_Witness ==
  /\ IsParsedBasicWithAllow
  /\ details.type = "date"
  /\ Len(details.allow[1]) = 2
  /\ details.allow[1][1].kind = "string"
  /\ details.allow[1][2].kind = "null"
  /\ Len(parsedSchema.value.children) = 2

\* an array schema without items, itself parsed
IsParsedArrayWithoutItems ==
  /\ pc # "start"
  /\ details.type = "array"
  /\ ~LabelFollowed
  /\ (details.items = None \/ details.items = Some(<<>>))

\* C6: an array whose items array is empty or absent gives a list composite
\* with exactly one child, a leaf `any`; parseSchema neither throws nor
\* returns undefined
C6_EmptyItemsGiveAny ==
  IsParsedArrayWithoutItems =>
    /\ parsedSchema.kind = "ok"
    /\ parsedSchema.value.isRoot
    /\ parsedSchema.value.joinOperation = "list"
    /\ Len(parsedSchema.value.children) = 1
    /\ ~parsedSchema.value.children[1].isRoot
    /\ parsedSchema.value.children[1].content = T_any

\* a list composite, rendered
IsRenderedList ==
  /\ pc = "rendered"
  /\ parsedSchema.kind = "ok"
  /\ parsedSchema.value.isRoot
  /\ parsedSchema.value.joinOperation = "list"
  /\ tsContent.kind = "ok"

\* the text of a list: the child's text, in parentheses if it holds `|`, then `[]`
ListText(child) ==
  IF \E i \in 1..Len(child) : child[i] = "|"
  THEN <<"(">> \o child \o <<")", "[", "]">>
  ELSE child \o <<"[", "]">>

\* tsContent is the array expression, after its doc comment and inside its
\* declaration if it is exported
IsArrayExpression(arrayStr) ==
  /\ EndsWith(tsContent.text, IF doExport THEN arrayStr \o <<";">> ELSE arrayStr)
  /\ (~doExport /\ ~commentEverything /\ details.description = None) => tsContent.text = arrayStr

\* details without its label and description
Unflagged(d) == [d EXCEPT !.label = None, !.description = None]

T_StringOrNumber == T_string \o T_bar \o T_number

\* C7: a list renders as its single child's text followed by `[]`, the
\* child's text in parentheses exactly when it holds `|`; an array of
\* alternatives(string, number) renders as `(string | number)[]`, never as
\* `string | number[]`, also when the array is the item of an array
C7_ListParentheses ==
  IsRenderedList =>
    /\ Len(parsedSchema.value.children) = 1
    /\ IsArrayExpression(ListText(
         typeContentToTsHelper(commentEverything, parsedSchema.value.children[1], FALSE, 0).tsContent))
    /\ Unflagged(details) = ArrayOf(Some(<<StringOrNumber>>)) =>
         IsArrayExpression(<<"(">> \o T_StringOrNumber \o <<")", "[", "]">>)
    /\ Unflagged(details) = ArrayOf(Some(<<ArrayOf(Some(<<StringOrNumber>>))>>)) =>
         IsArrayExpression(<<"(", "(">> \o T_StringOrNumber \o <<")", "[", "]", ")", "[", "]">>)
    /\ ~Contains(tsContent.text, T_StringOrNumber \o <<"[", "]">>)

\* C7's case: an array of an array of alternatives(string, number), rendered
C7_Witness ==
  /\ IsRenderedList
  /\ Unflagged(details) = ArrayOf(Some(<<ArrayOf(Some(<<StringOrNumber>>))>>))
  /\ ~doExport
  /\ tsContent.text = <<"(", "(">> \o T_StringOrNumber \o <<")", "[", "]", ")", "[", "]">>

\* an object schema, itself parsed into a composite
IsParsedObject ==
  /\ pc # "start"
  /\ details.type = "object"
  /\ ~LabelFollowed
  /\ parsedSchema.kind = "ok"

\* the places of text where pat starts
Positions(text, pat) ==
  {p \in 0..(Len(text) - Len(pat)) : \A k \in 1..Len(pat) : text[p + k] = pat[k]}

\* the start of the property line of a child of a top-level object body
ChildLineStart(child) == PropertyLineStart(child.name[1], child.required # Some(TRUE))

\* the names of the children, in order
ChildNames(children) == [i \in 1..Len(children) |-> children[i].name[1]]

\* what parseSchema gives for the same call when properties are not sorted
UnsortedChildren ==
  parseSchema(details, [settings EXCEPT !.sortPropertiesByName = FALSE], useLabels, ignoreLabels).value.children

\* C8: under sortPropertiesByName the children of an object composite (raw
\* keys, quoted keys and the `[x: string]` catch-all alike) are ordered by
\* name, each name less than or equal to the next, they are a permutation of
\* the unsorted children, and the interface lists the properties in that order
C8_SortedProperties ==
  (IsParsedObject /\ settings.sortPropertiesByName) =>
    LET children == parsedSchema.value.children
        unsorted == UnsortedChildren
    IN /\ parsedSchema.value.isRoot /\ parsedSchema.value.joinOperation = "object"
       /\ \A i \in 1..(Len(children) - 1) : ~StrLess(children[i + 1].name[1], children[i].name[1])
       /\ Len(children) = Len(unsorted)
       /\ \A i \in 1..Len(children) :
            Cardinality({j \in 1..Len(children) : children[j] = children[i]})
              = Cardinality({j \in 1..Len(children) : unsorted[j] = children[i]})
       /\ {children[i].name[1] : i \in 1..Len(children)}
            = {<<"a">>, <<"Z">>, <<SQ, "a", "-", "b", SQ>>, T_unknownName}
            => ChildNames(children) = <<<<SQ, "a", "-", "b", SQ>>, <<"Z">>, T_unknownName, <<"a">>>>
       /\ (pc = "rendered" /\ tsContent.kind = "ok") =>
            LET places == [i \in 1..Len(children) |-> Positions(tsContent.text, ChildLineStart(children[i]))]
            IN \A i \in 1..Len(children) :
                 /\ places[i] # {}
                 /\ \A j \in (i + 1)..Len(children) : \A p \in places[i], q \in places[j] : p < q

\* C8's case: keys given as a, then a-b, with the catch-all, sorted to
\* 'a-b', [x: string], a and rendered
C8_Witness ==
  /\ IsParsedObject
  /\ settings.sortPropertiesByName
  /\ pc = "rendered"
  /\ tsContent.kind = "ok"
  /\ Len(details.keys) = 2
  /\ details.keys[1].key = <<"a">>
  /\ ChildNames(parsedSchema.value.children) = <<<<SQ, "a", "-", "b", SQ>>, T_unknownName, <<"a">>>>

\* the labels an alternatives ignores in its branches: its own
BranchIgnoreLabels(d) == IF d.label = None THEN <<>> ELSE <<d.label[1]>>

\* a child of an unsupported type whose label, if any, is not followed
IsUnsupportedChild(child, ignore) ==
  /\ child.type \in UnsupportedTypes
  /\ child.label = None \/ \E i \in 1..Len(ignore) : ignore[i] = child.label[1]

\* the properties and the branches of d that are not unsupported children
OtherEntries(d) == SelectSeq(d.keys, LAMBDA e : ~IsUnsupportedChild(e.value, <<>>))
OtherMatches(d) == SelectSeq(d.matches, LAMBDA m : ~IsUnsupportedChild(m, BranchIgnoreLabels(d)))

\* d without its unsupported children
WithoutUnsupported(d) == [d EXCEPT !.keys = OtherEntries(d), !.matches = OtherMatches(d)]

\* an object or an alternatives with an unsupported child, itself parsed
IsParsedParentOfUnsupported(type) ==
  /\ pc # "start"
  /\ details.type = type
  /\ ~LabelFollowed
  /\ WithoutUnsupported(details) # details

\* the parse of each other property, and of each other branch
OtherProperties == [i \in 1..Len(OtherEntries(details)) |->
                      parseSchema(OtherEntries(details)[i].value, settings, TRUE, <<>>)]
OtherBranches == [i \in 1..Len(OtherMatches(details)) |->
                    parseSchema(OtherMatches(details)[i], settings, TRUE, BranchIgnoreLabels(details))]

AllOk(results) == \A i \in 1..Len(results) : results[i].kind = "ok"

\* the names of the other properties in key order, then the catch-all if any
OtherNames ==
  [i \in 1..Len(OtherEntries(details)) |-> PropertyName(OtherEntries(details)[i].key)]
    \o (IF details.unknown THEN <<T_unknownName>> ELSE <<>>)

\* a node of an unsupported type, its label not followed, parses to undefined
UnsupportedIsUndefined ==
  (pc # "start" /\ details.type \in UnsupportedTypes /\ ~LabelFollowed) => parsedSchema.kind = "undefined"

\* C9, as stated: a node of an unsupported type parses to undefined; the
\* enclosing object or alternatives still yields a composite that holds every
\* other child in its original order
C9_ParentKeepsOthersInOrder ==
  /\ UnsupportedIsUndefined
  /\ (IsParsedParentOfUnsupported("object") /\ AllOk(OtherProperties)) =>
       /\ parsedSchema.kind = "ok"
       /\ parsedSchema.value.joinOperation = "object"
       /\ ChildNames(parsedSchema.value.children) = OtherNames
  /\ (IsParsedParentOfUnsupported("alternatives") /\ AllOk(OtherBranches)) =>
       /\ parsedSchema.kind = "ok"
       /\ parsedSchema.value.joinOperation = "union"
       /\ parsedSchema.value.children = [i \in 1..Len(OtherBranches) |-> OtherBranches[i].value]

\* C9, amended: a node of an unsupported type parses to undefined; the
\* enclosing object or alternatives gives the result it gives without that
\* child: an object composite of the other properties, in key order or, under
\* sortPropertiesByName, in name order; a union of the other branches in
\* their original order; undefined for an alternatives with no branch left
C9_UnsupportedOmitted ==
  /\ UnsupportedIsUndefined
  /\ (IsParsedParentOfUnsupported("object") \/ IsParsedParentOfUnsupported("alternatives")) =>
       parsedSchema = parseSchema(WithoutUnsupported(details), settings, useLabels, ignoreLabels)
  /\ (IsParsedParentOfUnsupported("object") /\ AllOk(OtherProperties)) =>
       /\ parsedSchema.kind = "ok"
       /\ parsedSchema.value.joinOperation = "object"
       /\ ChildNames(parsedSchema.value.children)
            = IF settings.sortPropertiesByName
              THEN ChildNames(SortChildren([i \in 1..Len(OtherNames) |-> [name |-> Some(OtherNames[i])]]))
              ELSE OtherNames
  /\ (IsParsedParentOfUnsupported("alternatives") /\ AllOk(OtherBranches)) =>
       IF Len(OtherBranches) = 0 THEN parsedSchema.kind = "undefined"
       ELSE /\ parsedSchema.kind = "ok"
            /\ parsedSchema.value.joinOperation = "union"
            /\ parsedSchema.value.children = [i \in 1..Len(OtherBranches) |-> OtherBranches[i].value]

\* C9's case: an alternatives whose first branch is unsupported, parsed to
\* the union of its second branch
C9_Witness ==
  /\ IsParsedParentOfUnsupported("alternatives")
  /\ Len(details.matches) = 2
  /\ details.matches[1].type = "binary"
  /\ parsedSchema.kind = "ok"
  /\ Len(parsedSchema.value.children) = 1

\* C10: exporting an unnamed node is fatal: typeContentToTs with doExport
\* raises an error for every node, leaf or composite, whose name is absent or
\* empty
C10_ExportNeedsName ==
  (pc = "rendered" /\ doExport /\ (parsedSchema.value.name = None \/ parsedSchema.value.name = Some(<<>>))) =>
    tsContent.kind = "throw"

\* the lines of a text: String.prototype.split('\n')
RECURSIVE SplitLines(_)
SplitLines(text) ==
  IF \E i \in 1..Len(text) : text[i] = NL
  THEN LET first == CHOOSE i \in 1..Len(text) : text[i] = NL /\ \A j \in 1..(i - 1) : text[j] # NL
       IN <<SubSeq(text, 1, first - 1)>> \o SplitLines(SubSeq(text, first + 1, Len(text)))
  ELSE <<text>>

\* the number of spaces a line starts with
LeadingSpaces(line) ==
  IF \A i \in 1..Len(line) : line[i] = " " THEN Len(line)
  ELSE (CHOOSE i \in 1..Len(line) : line[i] # " " /\ \A j \in 1..(i - 1) : line[j] = " ") - 1

\* the line closes an object body: its first character after the spaces is `}`
ClosesBody(line) == LeadingSpaces(line) < Len(line) /\ line[LeadingSpaces(line) + 1] = "}"

\* the line opens an object body: its last character is `{`
OpensBody(line) == Len(line) > 0 /\ line[Len(line)] = "{"

\* the line starts with exactly units indent units: a property line or the
\* `/**` of a doc comment right after them, or the ` * ` and ` */` of one
StartsWithUnits(line, units) ==
  \/ LeadingSpaces(line) = 2 * units /\ Len(line) > 2 * units
  \/ /\ LeadingSpaces(line) = 2 * units + 1
     /\ Len(line) > 2 * units + 1
     /\ line[2 * units + 2] = "*"

\* lines[i] and the lines after it are indented by their depth, depth being
\* the number of object bodies open before lines[i]
RECURSIVE IndentedByDepth(_, _, _)
IndentedByDepth(lines, i, depth) ==
  IF i > Len(lines) THEN TRUE
  ELSE LET line == lines[i]
           inner == IF ClosesBody(line) THEN depth - 1 ELSE depth
       IN /\ depth > 0 =>
               IF ClosesBody(line) THEN LeadingSpaces(line) = 2 * (depth - 1)
               ELSE StartsWithUnits(line, depth)
          /\ IndentedByDepth(lines, i + 1, IF OpensBody(line) THEN inner + 1 ELSE inner)

\* C11: in the text rendered for a tree that parseSchema produced, every
\* property line and every doc-comment line of an object body at nesting depth
\* d (the number of object bodies around the line, also when an inner object
\* is reached through a list or a union) starts with exactly d indent units of
\* two spaces, and the closing brace of the body with exactly d - 1
C11_IndentByDepth ==
  (pc = "rendered" /\ tsContent.kind = "ok") =>
    IndentedByDepth(SplitLines(tsContent.text), 1, 0)

====
